---- MODULE Spec2Model ----
(***************************************************************************)
(* Model of the label generator: backend/label_generator.py                *)
(* (LABEL_FORMATS, AdvancedLabelGenerator) and the request path of         *)
(* backend/main.py (LabelRequest validation, generate_labels).             *)
(*                                                                         *)
(* Lengths are exact integers: 1 inch = UnitsPerInch units, so that every  *)
(* dimension of the source (fractions of an inch, millimetres for A4, the  *)
(* 0.7 / 0.5 / 0.8 factors of draw_label) is a whole number of units.      *)
(* 1 pt = 2540 units, 1 mm = 7200 units.                                   *)
(***************************************************************************)
EXTENDS Integers, Sequences, FiniteSets, TLC

VARIABLES
    pc,           \* position of the request / call
    via,          \* "api" (POST /api/generate) or "direct" (library call)
    req,          \* the payload / constructor arguments
    errors,       \* fields of the payload that failed validation
    gen,          \* the AdvancedLabelGenerator instance (NoGen before __init__)
    label_count,  \* generate_pdf's local label_count
    drawn,        \* labels drawn so far, in order (one record per draw_label call)
    canvas,       \* "none", "open" or "saved": the reportlab Canvas c
    pages,        \* pages the canvas has emitted (showPage), each <<texts, glyphs>>
    cur,          \* drawing operations on the canvas's current page
    result,       \* generate_pdf's return value, NoResult before it returns
    status        \* HTTP status of the response, 0 while there is none

vars == <<pc, via, req, errors, gen, label_count, drawn, canvas, pages, cur,
          result, status>>

----------------------------------------------------------------------------
\* Bounds of the model

MaxLabels == 61

----------------------------------------------------------------------------
\* Units (reportlab.lib.units, reportlab.lib.pagesizes)

UnitsPerInch == 182880

UnitsPerMm == 7200

\* n/d inch, in units
Inch(n, d) == (n * UnitsPerInch) \div d

letter == <<Inch(17, 2), Inch(11, 1)>>

A4 == <<210 * UnitsPerMm, 297 * UnitsPerMm>>

----------------------------------------------------------------------------
\* LABEL_FORMATS.  The source writes the dimensions as decimal fractions of an
\* inch: 2.625 = 21/8, 0.1875 = 3/16, 0.125 = 1/8, 0.15625 = 5/32, 0.5 = 1/2.

LABEL_FORMATS ==
    [avery5160 |->
        [name |-> "Avery 5160 (30 labels)",
         label_width |-> Inch(21, 8),
         label_height |-> Inch(1, 1),
         labels_per_row |-> 3,
         labels_per_column |-> 10,
         left_margin |-> Inch(3, 16),
         top_margin |-> Inch(1, 2),
         horizontal_gap |-> Inch(1, 8),
         vertical_gap |-> 0],
     avery5161 |->
        [name |-> "Avery 5161 (20 labels)",
         label_width |-> Inch(4, 1),
         label_height |-> Inch(1, 1),
         labels_per_row |-> 2,
         labels_per_column |-> 10,
         left_margin |-> Inch(5, 32),
         top_margin |-> Inch(1, 2),
         horizontal_gap |-> Inch(3, 16),
         vertical_gap |-> 0],
     avery5163 |->
        [name |-> "Avery 5163 (10 labels)",
         label_width |-> Inch(4, 1),
         label_height |-> Inch(2, 1),
         labels_per_row |-> 2,
         labels_per_column |-> 5,
         left_margin |-> Inch(5, 32),
         top_margin |-> Inch(1, 2),
         horizontal_gap |-> Inch(3, 16),
         vertical_gap |-> 0]]

FormatIds == DOMAIN LABEL_FORMATS

NoFormat == [name |-> "none"]

\* (mutant of FormatSpec: an unknown key falls back to the default preset)
FormatSpecOrDefault(label_format) ==
    IF label_format \in FormatIds THEN LABEL_FORMATS[label_format]
    ELSE LABEL_FORMATS["avery5160"]

\* the lookup of __init__: the preset, or NoFormat when the key is absent
FormatSpec(label_format) ==
    IF label_format \in FormatIds THEN LABEL_FORMATS[label_format] ELSE NoFormat

----------------------------------------------------------------------------
\* LabelRequest and its validators (main.py)

MaxCode == 999999

MaxAffixLen == 20

Ok == "ok"

\* (mutant of validate_codes: the upper limit is not checked)
validate_codes_no_upper(v) ==
    IF v < 0 THEN "Code numbers must be positive" ELSE Ok

validate_codes(v) ==
    IF v < 0 THEN "Code numbers must be positive"
    ELSE IF v > MaxCode THEN "Code numbers must be less than 1,000,000"
    ELSE Ok

\* data: the fields validated so far (pydantic's info.data holds only the
\* fields that passed)
validate_range(v, data, p) ==
    IF "start_code" \in data /\ v < p.start_code
    THEN "End code must be greater than or equal to start code"
    ELSE Ok

validate_affix(v) ==
    IF Len(v) > MaxAffixLen THEN "Prefix/suffix must be 20 characters or less"
    ELSE Ok

\* The fields of payload p that fail, validated in declaration order; the
\* validators of end_code run in order and stop at the first that raises.
ValidationErrors(p) ==
    LET startOk == validate_codes(p.start_code) = Ok
        data == IF startOk THEN {"start_code"} ELSE {}
        endOk == /\ validate_codes(p.end_code) = Ok
                 /\ validate_range(p.end_code, data, p) = Ok
    IN  (IF startOk THEN {} ELSE {"start_code"})
        \cup (IF endOk THEN {} ELSE {"end_code"})
        \cup (IF p.code_type \in {"barcode", "qrcode"} THEN {} ELSE {"code_type"})
        \cup (IF p.label_format \in {"avery5160", "avery5161", "avery5163"}
              THEN {} ELSE {"label_format"})
        \cup (IF validate_affix(p.prefix) = Ok THEN {} ELSE {"prefix"})
        \cup (IF validate_affix(p.suffix) = Ok THEN {} ELSE {"suffix"})
        \cup (IF p.page_size \in {"letter", "a4"} THEN {} ELSE {"page_size"})

\* page_size = A4 if request.page_size == "a4" else letter
PageSize(p) == IF p.page_size = "a4" THEN A4 ELSE letter

----------------------------------------------------------------------------
\* AdvancedLabelGenerator

NoGen == [format_name |-> "none"]

\* str.lower() on the code_type values the model passes
Lower(s) ==
    CASE s = "QRCode" -> "qrcode"
      [] s = "BARCODE" -> "barcode"
      [] OTHER -> s

\* __init__ for a known format
NewGenerator(a) ==
    LET f == FormatSpec(a.label_format)
    IN  [start_code |-> a.start_code,
         end_code |-> a.end_code,
         code_type |-> Lower(a.code_type),
         prefix |-> a.prefix,
         suffix |-> a.suffix,
         label_width |-> f.label_width,
         label_height |-> f.label_height,
         labels_per_row |-> f.labels_per_row,
         labels_per_column |-> f.labels_per_column,
         left_margin |-> f.left_margin,
         top_margin |-> f.top_margin,
         horizontal_gap |-> f.horizontal_gap,
         vertical_gap |-> f.vertical_gap,
         format_name |-> f.name]

Digit(d) ==
    CASE d = 0 -> "0" [] d = 1 -> "1" [] d = 2 -> "2" [] d = 3 -> "3"
      [] d = 4 -> "4" [] d = 5 -> "5" [] d = 6 -> "6" [] d = 7 -> "7"
      [] d = 8 -> "8" [] d = 9 -> "9"

RECURSIVE DecimalString(_)
\* str(int), as the f-string formats code_value
DecimalString(n) ==
    IF n < 0 THEN "-" \o DecimalString(-n)
    ELSE IF n < 10 THEN Digit(n)
    ELSE DecimalString(n \div 10) \o Digit(n % 10)

\* (mutant of format_code: the suffix is dropped)
format_code_no_suffix(g, code_value) ==
    g.prefix \o DecimalString(code_value)

format_code(g, code_value) ==
    g.prefix \o DecimalString(code_value) \o g.suffix

\* len(range(start_code, end_code + 1))
LenCodes(g) ==
    IF g.end_code + 1 > g.start_code THEN g.end_code + 1 - g.start_code ELSE 0

\* the i-th (zero-based) element of codes
CodeAt(g, i) == g.start_code + i

PerSheet(g) == g.labels_per_row * g.labels_per_column

\* (mutant of Row: the index is not reduced to the sheet)
RowNoWrap(g, lc) == lc \div g.labels_per_row

Row(g, lc) == (lc % (g.labels_per_row * g.labels_per_column)) \div g.labels_per_row

Col(g, lc) == lc % g.labels_per_row

LabelX(g, col) == g.left_margin + col * (g.label_width + g.horizontal_gap)

LabelY(g, row, page_height) ==
    page_height - g.top_margin - (row + 1) * g.label_height - row * g.vertical_gap

Min(a, b) == IF a < b THEN a ELSE b

Max(a, b) == IF a < b THEN b ELSE a

\* (mutant of GlyphBox: the QR side follows the larger dimension, the bar
\* height is the whole label height)
GlyphBoxMax(g, x, y) ==
    IF g.code_type = "qrcode"
    THEN LET qr_size == Max((g.label_width * 7) \div 10, (g.label_height * 7) \div 10)
         IN  [kind |-> "qrcode",
              x |-> x + (g.label_width - qr_size) \div 2,
              y |-> y + Inch(1, 10),
              w |-> qr_size,
              h |-> qr_size]
    ELSE LET barcode_width == g.label_width - Inch(2, 10)
         IN  [kind |-> "barcode",
              x |-> x + (g.label_width - barcode_width) \div 2,
              y |-> y + Inch(2, 10),
              w |-> barcode_width,
              h |-> g.label_height]

\* the box draw_label derives for the glyph: qr_x, qr_y, qr_size, or
\* barcode_x, barcode_y, barcode_width, barHeight

GlyphBox(g, x, y) ==
    IF g.code_type = "qrcode"
    THEN LET qr_size == Min((g.label_width * 7) \div 10, (g.label_height * 7) \div 10)
         IN  [kind |-> "qrcode",
              x |-> x + (g.label_width - qr_size) \div 2,
              y |-> y + Inch(1, 10),
              w |-> qr_size,
              h |-> qr_size]
    ELSE LET barcode_width == g.label_width - Inch(2, 10)
             barcode_height == g.label_height \div 2
         IN  [kind |-> "barcode",
              x |-> x + (g.label_width - barcode_width) \div 2,
              y |-> y + Inch(2, 10),
              w |-> barcode_width,
              h |-> (barcode_height * 8) \div 10]

\* (mutants of ShowPageDue: the test made one label early; the test made
\* only while labels remain)
ShowPageDueEarly(g, lc) == (lc + 1) % (g.labels_per_row * g.labels_per_column) = 0

ShowPageDueIfMore(g, lc) ==
    lc % (g.labels_per_row * g.labels_per_column) = 0 /\ lc < LenCodes(g)

\* the test after label_count += 1, lc the incremented count
ShowPageDue(g, lc) == lc % (g.labels_per_row * g.labels_per_column) = 0

\* (mutant of TotalPages: the count is not reduced by one before dividing)
TotalPagesNoCeil(g) == LenCodes(g) \div (g.labels_per_row * g.labels_per_column) + 1

\* total_pages of generate_pdf; Python's // and TLA+'s \div both round down
TotalPages(g) ==
    (LenCodes(g) - 1) \div (g.labels_per_row * g.labels_per_column) + 1

----------------------------------------------------------------------------
\* The reportlab Canvas, as far as generate_pdf drives it.  A page is the pair
\* <<texts, glyphs>> of the drawing operations it holds.  showPage() emits the
\* current page, empty or not, and starts a new one; save() emits the current
\* page only if something has been drawn on it, then writes the file.

EmptyPage == <<0, 0>>

ShowPage(ps, page) == Append(ps, page)

SavedPages(ps, page) == IF page # EmptyPage THEN Append(ps, page) ELSE ps

----------------------------------------------------------------------------
\* The HTTP handler generate_labels

NoResult == <<-1, -1>>

\* (mutant of ResponseStatus: the except branch is lost and every request
\* answers 200)
ResponseStatusAlwaysOk(raised) == 200

\* 200 with the LabelResponse, or the HTTPException(500) of the except branch
ResponseStatus(raised) == IF raised THEN 500 ELSE 200

----------------------------------------------------------------------------
\* Inputs

StartCodes == {1, 100}

Affixes == {<<"TEST-", "">>, <<"", "-2024">>, <<"QR-", "-2024">>}

LongAffix == "AAAAAAAAAAAAAAAAAAAAA"

\* payloads whose range is drawn label by label
RunPayloads ==
    { [start_code |-> s, end_code |-> s + n - 1, code_type |-> k,
       label_format |-> f, prefix |-> a[1], suffix |-> a[2], page_size |-> ps] :
        s \in StartCodes, n \in 1..MaxLabels, k \in {"barcode", "qrcode"},
        f \in FormatIds, a \in Affixes, ps \in {"letter", "a4"} }

BasePayload ==
    [start_code |-> 1, end_code |-> 10, code_type |-> "barcode",
     label_format |-> "avery5160", prefix |-> "", suffix |-> "",
     page_size |-> "letter"]

CodeEdges == {-1, 0, MaxCode, MaxCode + 1}

\* payloads at the edges of the validators
EdgePayloads ==
    { [BasePayload EXCEPT !.start_code = s, !.end_code = e] :
        s \in CodeEdges \cup {1, 100}, e \in CodeEdges \cup {10, 50} }
    \cup { [BasePayload EXCEPT !.code_type = "invalid"],
           [BasePayload EXCEPT !.label_format = "avery9999"],
           [BasePayload EXCEPT !.prefix = LongAffix],
           [BasePayload EXCEPT !.suffix = LongAffix],
           [BasePayload EXCEPT !.page_size = "legal"],
           [BasePayload EXCEPT !.code_type = "invalid", !.end_code = 0] }

Payloads == RunPayloads \cup EdgePayloads

\* arguments of direct calls of the constructor and generate_pdf
DirectArgs ==
    { [start_code |-> r[1], end_code |-> r[2], code_type |-> k,
       label_format |-> f, prefix |-> "P", suffix |-> "", page_size |-> "letter"] :
        r \in {<<1, 3>>, <<5, 4>>, <<0, 9>>},
        k \in {"QRCode", "barcode"},
        f \in {"avery5163", "avery9999"} }

----------------------------------------------------------------------------
\* The state machine

Init ==
    /\ pc = "idle"
    /\ via = "none"
    /\ req = BasePayload
    /\ errors = {}
    /\ gen = NoGen
    /\ label_count = 0
    /\ drawn = <<>>
    /\ canvas = "none"
    /\ pages = <<>>
    /\ cur = EmptyPage
    /\ result = NoResult
    /\ status = 0

\* POST /api/generate: FastAPI validates the body as a LabelRequest before the
\* handler runs; a body that fails is answered 422 and the handler is not
\* entered.
Post ==
    /\ pc = "idle"
    /\ \E p \in Payloads :
        /\ req' = p
        /\ via' = "api"
        /\ errors' = ValidationErrors(p)
        /\ IF ValidationErrors(p) # {}
           THEN pc' = "rejected" /\ status' = 422
           ELSE pc' = "handler" /\ status' = 0
    /\ UNCHANGED <<gen, label_count, drawn, canvas, pages, cur, result>>

\* a caller of the module constructs a generator itself
Call ==
    /\ pc = "idle"
    /\ \E a \in DirectArgs :
        /\ req' = a
        /\ via' = "direct"
    /\ pc' = "handler"
    /\ UNCHANGED <<errors, gen, label_count, drawn, canvas, pages, cur, result,
                   status>>

\* AdvancedLabelGenerator.__init__: ValueError for an unknown format.  The
\* handler turns the exception into a 500.
Construct ==
    /\ pc = "handler"
    /\ LenCodes(req) <= MaxLabels
    /\ IF FormatSpec(req.label_format) = NoFormat
       THEN /\ pc' = "raised"
            /\ gen' = gen
            /\ status' = IF via = "api" THEN ResponseStatus(TRUE) ELSE status
       ELSE /\ pc' = "constructed"
            /\ gen' = NewGenerator(req)
            /\ status' = status
    /\ UNCHANGED <<via, req, errors, label_count, drawn, canvas, pages, cur, result>>

\* generate_pdf up to the loop: the canvas is created, label_count = 0
OpenCanvas ==
    /\ pc = "constructed"
    /\ pc' = "loop"
    /\ canvas' = "open"
    /\ label_count' = 0
    /\ UNCHANGED <<via, req, errors, gen, drawn, pages, cur, result, status>>

\* what one iteration computes before it draws
Placement(g, lc, page_size) ==
    LET row == Row(g, lc)
        col == Col(g, lc)
        x == LabelX(g, col)
        y == LabelY(g, row, page_size[2])
    IN  [index |-> lc, code |-> CodeAt(g, lc), row |-> row, col |-> col,
         x |-> x, y |-> y, page |-> Len(pages)]

\* one iteration of the loop in which draw_label returns: the text and the
\* glyph are drawn, label_count is incremented, showPage is called if due
DrawLabel ==
    /\ pc = "loop"
    /\ label_count < LenCodes(gen)
    /\ LET pl == Placement(gen, label_count, PageSize(req))
           brk == ShowPageDue(gen, label_count + 1)
           page == <<cur[1] + 1, cur[2] + 1>>
       IN  /\ drawn' = Append(drawn,
                   [index |-> pl.index, code |-> pl.code, row |-> pl.row,
                    col |-> pl.col, x |-> pl.x, y |-> pl.y, page |-> pl.page,
                    text |-> "ID: " \o format_code(gen, pl.code),
                    glyph |-> format_code(gen, pl.code),
                    box |-> GlyphBox(gen, pl.x, pl.y),
                    showPage |-> brk])
           /\ IF brk
              THEN pages' = ShowPage(pages, page) /\ cur' = EmptyPage
              ELSE pages' = pages /\ cur' = page
    /\ label_count' = label_count + 1
    /\ UNCHANGED <<pc, via, req, errors, gen, canvas, result, status>>

\* one iteration in which the glyph provider raises (Code128 or QrCodeWidget
\* rejects the string): the text of the label is already on the canvas, the
\* exception leaves draw_label and generate_pdf, which has no handler; the
\* HTTP handler's except branch answers 500
DrawLabelRaises ==
    /\ pc = "loop"
    /\ label_count < LenCodes(gen)
    /\ cur' = <<cur[1] + 1, cur[2]>>
    /\ pc' = "raised"
    /\ status' = IF via = "api" THEN ResponseStatus(TRUE) ELSE status
    /\ UNCHANGED <<via, req, errors, gen, label_count, drawn, canvas, pages, result>>

\* after the loop: c.save(), the return value, and the handler's response
Save ==
    /\ pc = "loop"
    /\ label_count = LenCodes(gen)
    /\ pages' = SavedPages(pages, cur)
    /\ cur' = EmptyPage
    /\ canvas' = "saved"
    /\ result' = <<LenCodes(gen), TotalPages(gen)>>
    /\ pc' = "done"
    /\ status' = IF via = "api" THEN ResponseStatus(FALSE) ELSE status
    /\ UNCHANGED <<via, req, errors, gen, label_count, drawn>>

Next ==
    \/ Post
    \/ Call
    \/ Construct
    \/ OpenCanvas
    \/ DrawLabel
    \/ DrawLabelRaises
    \/ Save

Spec == Init /\ [][Next]_vars

----------------------------------------------------------------------------
\* Vocabulary of the properties

\* the preset the request names (only used where the format is registered)
Preset == LABEL_FORMATS[req.label_format]

Columns == Preset.labels_per_row

Rows == Preset.labels_per_column

SheetCapacity == Columns * Rows

RangeLen == req.end_code - req.start_code + 1

\* the least k with k * d >= n
Ceil(n, d) == CHOOSE k \in 0..n : k * d >= n /\ (k - 1) * d < n

Generating == gen # NoGen

ValidRange == 0 <= req.start_code /\ req.start_code <= req.end_code

RECURSIVE NumDigits(_)
NumDigits(n) == IF n < 10 THEN 1 ELSE 1 + NumDigits(n \div 10)

----------------------------------------------------------------------------
\* C1: when generate_pdf returns for a range 0 <= start <= end, totalLabels is
\* end - start + 1 and totalPages is ceil(totalLabels / perSheet), perSheet
\* being 30, 20, 10 for avery5160, avery5161, avery5163; range 1..10 on
\* avery5160 gives (10, 1), 30 labels give 1 page, 31 give 2, and 100..120 on
\* avery5163 gives (21, 3).
C1_Totals ==
    (pc = "done" /\ ValidRange) =>
        /\ SheetCapacity = (CASE req.label_format = "avery5160" -> 30
                              [] req.label_format = "avery5161" -> 20
                              [] req.label_format = "avery5163" -> 10)
        /\ result[1] = RangeLen
        /\ result[2] = Ceil(RangeLen, SheetCapacity)
        /\ (req.label_format = "avery5160" /\ req.start_code = 1 /\ req.end_code = 10)
               => result = <<10, 1>>
        /\ (req.label_format = "avery5160" /\ RangeLen = 30) => result[2] = 1
        /\ (req.label_format = "avery5160" /\ RangeLen = 31) => result[2] = 2
        /\ (req.label_format = "avery5163" /\ req.start_code = 100
                /\ req.end_code = 120) => result = <<21, 3>>

C1_Witness ==
    /\ pc = "done"
    /\ req.label_format = "avery5160"
    /\ RangeLen = 31
    /\ result = <<31, 2>>

\* C2: a range of exactly k * perSheet identifiers (k >= 1) ends with a saved
\* document of exactly k pages, each holding perSheet labels, the last label
\* at indexOnSheet perSheet - 1 of page k, and k is the totalPages returned.
C2_NoTrailingBlankPage ==
    (pc = "done" /\ ValidRange /\ RangeLen % SheetCapacity = 0) =>
        LET k == RangeLen \div SheetCapacity
            last == drawn[Len(drawn)]
        IN  /\ canvas = "saved"
            /\ Len(pages) = k
            /\ \A i \in 1..Len(pages) : pages[i] = <<SheetCapacity, SheetCapacity>>
            /\ last.index % SheetCapacity = SheetCapacity - 1
            /\ last.page = k - 1
            /\ result[2] = k

C2_Witness ==
    /\ pc = "done"
    /\ req.label_format = "avery5160"
    /\ RangeLen = 60
    /\ Len(pages) = 2

\* C3 as claimed: showPage follows a label if and only if the label is the
\* last of its page and more labels remain in the range.
C3_BreakOnlyIfMoreRemain ==
    Generating =>
        \A i \in 1..Len(drawn) :
            drawn[i].showPage <=>
                /\ (drawn[i].index + 1) % SheetCapacity = 0
                /\ drawn[i].index + 1 < LenCodes(gen)

\* C3 amended: showPage follows a label if and only if the label is the last
\* of its page, whether or not more labels remain; so when the range length
\* is a multiple of perSheet a showPage does follow the final label, and save
\* then adds no page: the saved document has no empty page and as many pages
\* as the labels need.
C3_BreakAfterEveryFullPage ==
    Generating =>
        /\ \A i \in 1..Len(drawn) :
               drawn[i].showPage <=> (drawn[i].index + 1) % SheetCapacity = 0
        /\ Len(pages) = Cardinality({i \in 1..Len(drawn) : drawn[i].showPage})
                            + (IF pc = "done" /\ drawn # <<>>
                                     /\ ~drawn[Len(drawn)].showPage THEN 1 ELSE 0)
        /\ pc = "done" => \A i \in 1..Len(pages) : pages[i] # EmptyPage

C3_Witness ==
    /\ pc = "done"
    /\ RangeLen = 10
    /\ req.label_format = "avery5163"
    /\ drawn[Len(drawn)].showPage
    /\ Len(pages) = 1

\* C4 as claimed: the origin of every label drawn for a request keeps the
\* label inside the page the request selects: 0 <= x, x + label_width <=
\* page_width, 0 <= y, y + label_height <= page_height.
C4_LabelInsidePage ==
    (Generating /\ via = "api") =>
        \A i \in 1..Len(drawn) :
            /\ 0 <= drawn[i].x
            /\ drawn[i].x + gen.label_width <= PageSize(req)[1]
            /\ 0 <= drawn[i].y
            /\ drawn[i].y + gen.label_height <= PageSize(req)[2]

\* C5: an identifier that is no key of LABEL_FORMATS makes the constructor
\* raise before a canvas exists and before anything is drawn, emitted or
\* saved; a registered identifier yields a generator with the preset's
\* geometry.
C5_UnknownFormat ==
    /\ req.label_format \notin FormatIds =>
          /\ gen = NoGen
          /\ canvas = "none"
          /\ drawn = <<>> /\ pages = <<>> /\ cur = EmptyPage
          /\ result = NoResult
          /\ pc \in {"idle", "rejected", "handler", "raised"}
    /\ (req.label_format \in FormatIds /\ pc \notin {"idle", "rejected", "handler"}) =>
          /\ gen # NoGen
          /\ gen.format_name = Preset.name
          /\ \A fld \in {"label_width", "label_height", "labels_per_row",
                          "labels_per_column", "left_margin", "top_margin",
                          "horizontal_gap", "vertical_gap"} :
                 gen[fld] = Preset[fld]

C5_Witness ==
    /\ pc = "raised"
    /\ req.label_format = "avery9999"
    /\ gen = NoGen

\* C6: when the glyph provider fails at index i, generate_pdf raises: only
\* the labels before i have been drawn, save is never called, no result is
\* returned, nothing further happens, and the service answers with an error.
C6_AtomicFailure ==
    (pc = "raised" /\ Generating) =>
        /\ Len(drawn) = label_count
        /\ \A i \in 1..Len(drawn) : drawn[i].index < label_count
        /\ canvas # "saved"
        /\ result = NoResult
        /\ via = "api" => status = 500
        /\ ~ENABLED Next

C6_Witness ==
    /\ pc = "raised"
    /\ Generating
    /\ via = "api"
    /\ Len(pages) >= 1
    /\ label_count > SheetCapacity

\* C7: a request with start_code or end_code outside 0..999999, or with
\* end_code < start_code (also when start_code is itself invalid), is
\* rejected and neither constructs a generator nor runs generate_pdf; a
\* request with 0 <= start_code <= end_code <= 999999 passes the validators
\* of the two codes.
C7_ValidationFirst ==
    via = "api" =>
        LET bad == \/ req.start_code < 0 \/ req.end_code < 0
                   \/ req.start_code > 999999 \/ req.end_code > 999999
                   \/ req.end_code < req.start_code
        IN  /\ bad => /\ pc = "rejected"
                      /\ status = 422
                      /\ errors \cap {"start_code", "end_code"} # {}
                      /\ gen = NoGen /\ canvas = "none" /\ drawn = <<>>
                      /\ result = NoResult
            /\ ~bad => errors \cap {"start_code", "end_code"} = {}
            /\ pc = "rejected" <=> errors # {}

C7_Witness ==
    /\ pc = "rejected"
    /\ req.start_code > 999999
    /\ req.end_code < req.start_code
    /\ req.end_code >= 0

\* C8: the row, column and page of every drawn label are those of the
\* Layout Calculator: with indexOnSheet = index mod perSheet, row =
\* indexOnSheet div columns, col = indexOnSheet mod columns, and index div
\* perSheet page breaks precede the label; no two labels of a page share a
\* cell.
C8_LayoutAgrees ==
    Generating =>
        /\ \A i \in 1..Len(drawn) :
              LET r == drawn[i]
                  indexOnSheet == r.index % SheetCapacity
              IN  /\ r.row = indexOnSheet \div Columns
                  /\ r.col = indexOnSheet % Columns
                  /\ r.page = r.index \div SheetCapacity
                  /\ r.row < Rows
        \* drawn only grows by Append, so comparing the newest label with
        \* the earlier ones in every state covers every pair; a finished
        \* run is compared pair by pair
        /\ \A j \in (IF pc = "done" THEN 1..Len(drawn) ELSE {Len(drawn)}) :
              \A i \in 1..(j - 1) :
                 <<drawn[i].page, drawn[i].row, drawn[i].col>>
                    # <<drawn[j].page, drawn[j].row, drawn[j].col>>

C8_Witness ==
    /\ Generating
    /\ req.label_format = "avery5160"
    /\ Len(drawn) = 35
    /\ drawn[35].row = 1 /\ drawn[35].col = 1 /\ drawn[35].page = 1

\* C9: the labels are drawn in increasing order, the label at index i carries
\* start + i and its glyph encodes prefix + decimalString(start + i) + suffix
\* ("TEST-42", "7-2024"); a run that succeeds has drawn every identifier of
\* the range once and saved once, after the last label.
C9_EveryIdentifierOnce ==
    Generating =>
        /\ \A i \in 1..Len(drawn) :
              LET r == drawn[i]
              IN  /\ r.index = i - 1
                  /\ r.code = req.start_code + r.index
                  /\ r.glyph = req.prefix \o DecimalString(r.code) \o req.suffix
                  /\ Len(r.glyph) = Len(req.prefix) + NumDigits(r.code) + Len(req.suffix)
                  /\ (req.prefix = "TEST-" /\ req.suffix = "" /\ r.code = 42)
                        => r.glyph = "TEST-42"
                  /\ (req.prefix = "" /\ req.suffix = "-2024" /\ r.code = 7)
                        => r.glyph = "7-2024"
                  /\ (req.prefix = "QR-" /\ req.suffix = "-2024" /\ r.code = 120)
                        => r.glyph = "QR-120-2024"
        /\ canvas = "saved" <=> pc = "done"
        /\ pc = "done" =>
              /\ Len(drawn) = LenCodes(req)
              /\ {drawn[i].code : i \in 1..Len(drawn)} = req.start_code..req.end_code
              /\ ~ENABLED Next

C9_Witness ==
    /\ pc = "done"
    /\ req.prefix = "TEST-"
    /\ req.start_code = 1
    /\ Len(drawn) = 61
    /\ drawn[42].glyph = "TEST-42"

\* C10: the glyph box of every drawn label lies inside the label rectangle
\* and is horizontally centred; for qrcode it is a square of side
\* 0.7 * min(label_width, label_height) at y + 0.1 in; for barcode it is
\* label_width - 0.2 in wide at (x + 0.1 in, y + 0.2 in) with bar height
\* 0.8 * 0.5 * label_height.
C10_GlyphInsideLabel ==
    Generating =>
        \A i \in 1..Len(drawn) :
            LET r == drawn[i]
                b == r.box
                w == Preset.label_width
                h == Preset.label_height
            IN  /\ r.x <= b.x /\ b.x + b.w <= r.x + w
                /\ r.y <= b.y /\ b.y + b.h <= r.y + h
                /\ b.x - r.x = (r.x + w) - (b.x + b.w)
                /\ b.kind = (IF gen.code_type = "qrcode" THEN "qrcode" ELSE "barcode")
                /\ b.kind = "qrcode" =>
                      /\ 10 * b.w = 7 * Min(w, h)
                      /\ b.h = b.w
                      /\ 10 * (b.y - r.y) = UnitsPerInch
                /\ b.kind = "barcode" =>
                      /\ 10 * (w - b.w) = 2 * UnitsPerInch
                      /\ 10 * (b.x - r.x) = UnitsPerInch
                      /\ 10 * (b.y - r.y) = 2 * UnitsPerInch
                      /\ 10 * b.h = 4 * h

C10_Witness ==
    /\ Generating
    /\ gen.code_type = "qrcode"
    /\ req.label_format = "avery5163"
    /\ Len(drawn) = 11
    /\ drawn[11].page = 1
    /\ drawn[11].box.w = drawn[11].box.h

====
